---------------------------- MODULE Spec2Model ----------------------------
(***************************************************************************)
(* The gitops-module / gitops-namespace command handler (commonHandler)    *)
(* of the cloud CLI, run by several concurrent CLI invocations against one *)
(* shared lock directory and one shared remote GitOps repository.          *)
(*                                                                         *)
(* commonHandler and createMutex are translated from                       *)
(* src/commands/support/gitops-module-common.ts.  The classes it imports   *)
(* (Mutex, NoopMutex, the GitOpsModuleApi implementations) are not part of *)
(* the sources at hand; they are modelled from their specification and are *)
(* marked "specified behaviour" below.                                     *)
(***************************************************************************)
EXTENDS Integers, Sequences, FiniteSets, TLC

(***************************************************************************)
(* Bounds of the model.                                                    *)
(***************************************************************************)
\* number of CLI invocations (processes) that may run concurrently
NumInvocations == 2
\* number of commits other writers (other machines, people) may land on the
\* default branch of the remote GitOps repository
MaxExternalPushes == 1
\* the fixed retry ceiling of the branch strategy (attempts per populate)
RetryCeiling == 2

\* number of times Mutex.claim looks at a marker that is held again before the
\* bounded wait is over
MaxWaits == 1
\* number of materializer operations applied in a row to one tree
MaxOperations == 3

\* how many times the pull secrets of one service account are updated in a row
MaxUpdates == 2

Invocations == 1..NumInvocations

\* the author recorded for a commit of a writer outside the invocations
External == 0

(***************************************************************************)
(* Inputs: the argv fields the handler reads.                              *)
(***************************************************************************)
\* values accepted for --lock: gitops-namespace.ts:72 and :213
LockChoices == {"optimistic", "pessimistic", "branch", "o", "p", "b"}
Names == {"svc-a", "svc-b"}
TmpDirs == {"/tmp/gitops-module", "/mnt/other"}
Namespaces == {"default", "tools"}
ContentDirs == {"/payload", "/payload-v2"}

\* an option that was not supplied
Absent == ""

ConfigFiles == {Absent, "gitops.yaml"}
BootstrapUrls == {Absent, "https://git/bootstrap"}

\* every argv the commands can be called with
AllArgv ==
  [name : Names, namespace : Namespaces, contentDir : ContentDirs,
   tmpDir : TmpDirs, lock : LockChoices, delete : BOOLEAN,
   gitopsConfigFile : ConfigFiles, bootstrapRepoUrl : BootstrapUrls]

\* the invocations of the handler: every name, lock directory and lock
\* strategy, the other options being the same for all
ArgvSet ==
  {a \in AllArgv :
     /\ a.namespace = "default"
     /\ a.contentDir = "/payload"
     /\ a.delete = FALSE
     /\ a.gitopsConfigFile = "gitops.yaml"
     /\ a.bootstrapRepoUrl = Absent}

\* the invocations of the command line: every combination of the config
\* sources and of --delete, for one module
CliArgv ==
  {a \in AllArgv :
     /\ a.name = "svc-a"
     /\ a.namespace = "default"
     /\ a.contentDir = "/payload"
     /\ a.tmpDir = "/tmp/gitops-module"
     /\ a.lock \in {"pessimistic", "branch"}}

\* the invocations that claim the file lock: every claim descriptor and
\* lock directory
ScopeArgv ==
  {a \in AllArgv :
     /\ a.lock = "pessimistic"
     /\ a.delete = FALSE
     /\ a.gitopsConfigFile = "gitops.yaml"
     /\ a.bootstrapRepoUrl = Absent}

\* the invocations that contend for the file lock of one lock directory
WaitArgv ==
  {a \in ScopeArgv :
     /\ a.namespace = "default"
     /\ a.contentDir = "/payload"
     /\ a.tmpDir = "/tmp/gitops-module"}

NoArgv ==
  [name |-> "", namespace |-> "", contentDir |-> "", tmpDir |-> "", lock |-> "",
   delete |-> FALSE, gitopsConfigFile |-> Absent, bootstrapRepoUrl |-> Absent]

(***************************************************************************)
(* Errors.  An error is a record of its kind and of the error it wraps.    *)
(***************************************************************************)
Error(kind) == [kind |-> kind, cause |-> "none"]
Wrap(kind, e) == [kind |-> kind, cause |-> e.kind]
NoError == Error("none")
LockTimeoutError == Error("LockTimeoutError")
ConfigResolutionError == Error("ConfigResolutionError")
AuthenticationError == Error("AuthenticationError")
MaterializationError == Error("MaterializationError")
StaleBaseError == Error("StaleBaseError")
\* the failure of Container.get(GitOpsModuleApi)
ContainerError == Error("ContainerError")
\* `claim.release()` evaluated while claim is undefined
TypeError == Error("TypeError")
GitOpsPopulateError(e) == Wrap("GitOpsPopulateError", e)

VARIABLES
  argv,        \* argv[i]: the arguments invocation i was started with
  pc,          \* pc[i]: the position of invocation i in commonHandler
  apiBound,    \* apiBound[i]: the class bound to GitOpsModuleApi in i's Container
  mutex,       \* mutex[i]: the IMutex created by createMutex
  claim,       \* claim[i]: the local variable `claim` (a ClaimedMutex or undefined)
  service,     \* service[i]: the local variable `service`
  thrown,      \* thrown[i]: the error thrown inside the try block
  printed,     \* printed[i]: the errors written by console.error, in order
  releases,    \* releases[i]: the number of completed claim.release() calls
  result,      \* result[i]: how the promise returned by the handler settled
  waited,      \* waited[i]: the times mutex.claim found the marker held and waited
  populated,   \* populated[i]: "none", "running", "resolved" or "rejected"
  attempts,    \* attempts[i]: attempts of the populate sequence started so far
  base,        \* base[i]: the remote commit the working copy was checked out at
  wc,          \* wc[i]: the tree of i's working copy
  pushed,      \* pushed[i]: the pushes of i the remote took (branches, commits)
  workDirs,    \* the working copy directories that exist, as <<invocation, attempt>>
  markers,     \* the lock markers that exist in the file system
  remoteLog,   \* the commits of the remote default branch, oldest first
  remoteTree,  \* the tree at the tip of the remote default branch
  externals,   \* the number of commits landed by other writers
  tree,        \* a tree the materializer is applied to on its own
  before,      \* that tree before the last operation
  opLog,       \* the operations applied to it, oldest first
  layerDecl,   \* the declaration of GitOpsLayer the build of the commands uses
  command,     \* the gitops command that was run
  heap,        \* the argument objects of that command, by reference
  parsed,      \* the arguments as yargs parsed them (a copy taken at the call)
  passed,      \* the reference passed to commonHandler, NoRef before the call
  imageArgv,   \* the arguments of a build, deploy or cr command
  child,       \* the state of its child process and what it wrote
  console,     \* what the command wrote with console.log and console.error
  exitCode,    \* the code process.exit was called with, NoExit without a call
  nsOptions,   \* the options NamespaceImpl.create was called with
  nsPc,        \* the position of create
  nsCalls,     \* the calls create made to its collaborators, in order
  nsNotified,  \* the status messages create passed to notifyStatus
  nsOutcome,   \* how the promise returned by create settled
  kubeSecrets, \* the names of the secrets of the namespace, as secrets.list returns them
  serviceAccount, \* the service account object passed to the update
  given,       \* a copy of that object taken at the call
  returned,    \* the service account the update returned
  updates      \* the number of updates applied

vars == <<argv, pc, apiBound, mutex, claim, service, thrown, printed, releases,
          result, waited, populated, attempts, base, wc, pushed, workDirs,
          markers, remoteLog, remoteTree, externals, tree, before, opLog,
          layerDecl, command, heap, parsed, passed,
          imageArgv, child, console, exitCode,
          nsOptions, nsPc, nsCalls, nsNotified, nsOutcome,
          kubeSecrets, serviceAccount, given, returned, updates>>

handlerVars == <<argv, apiBound, mutex, claim, service, printed, releases, result>>
populateVars == <<populated, attempts, base, wc, pushed, workDirs>>
remoteVars == <<remoteLog, remoteTree, externals>>
materializerVars == <<tree, before, opLog>>

commandVars == <<layerDecl, command, heap, parsed, passed>>
imageVars == <<imageArgv, child, console, exitCode>>
namespaceVars == <<nsOptions, nsPc, nsCalls, nsNotified, nsOutcome>>
pullSecretVars == <<kubeSecrets, serviceAccount, given, returned, updates>>

\* the variables of the parts that are modelled on their own
unitVars == <<materializerVars, commandVars, imageVars, namespaceVars, pullSecretVars>>

\* the variables of the gitops commands
gitopsVars == <<handlerVars, pc, thrown, waited, populateVars, markers, remoteVars>>

(***************************************************************************)
(* createMutex (gitops-module-common.ts:33-39).                            *)
(***************************************************************************)
NoopMutex == [kind |-> "NoopMutex", tmpDir |-> "", scope |-> ""]

NoMutex == [kind |-> "none", tmpDir |-> "", scope |-> ""]

Mutex(tmpDir, scope) == [kind |-> "Mutex", tmpDir |-> tmpDir, scope |-> scope]

\* createMutex as it would be with the short form 'p' forgotten
createMutex_LongNameOnly(lock, tmpDir, scope) ==
  IF lock = "pessimistic"
    THEN Mutex(tmpDir, scope)
    ELSE NoopMutex

\* createMutex as it would be if it returned the file lock for every strategy
createMutex_AlwaysLocks(lock, tmpDir, scope) == Mutex(tmpDir, scope)

\* createMutex as it would be if the branch strategy took the file lock too
createMutex_BranchLocks(lock, tmpDir, scope) ==
  IF lock \in {"pessimistic", "p", "branch", "b"}
    THEN Mutex(tmpDir, scope)
    ELSE NoopMutex

createMutex(lock, tmpDir, scope) ==
  IF lock = "pessimistic" \/ lock = "p"
    THEN Mutex(tmpDir, scope)
    ELSE NoopMutex

\* the binding as it would be with the short form 'b' forgotten
bindGitOpsModuleApi_LongNameOnly(lock) ==
  IF lock = "branch"
    THEN "GitopsModulePRImpl"
    ELSE "GitopsModuleImpl"

\* the binding as it would be with lines 11-13 missing
bindGitOpsModuleApi_Never(lock) == "GitopsModuleImpl"

\* the binding of GitOpsModuleApi in the Container (gitops-module-common.ts:11-13)
bindGitOpsModuleApi(lock) ==
  IF lock = "branch" \/ lock = "b"
    THEN "GitopsModulePRImpl"
    ELSE "GitopsModuleImpl"

(***************************************************************************)
(* The mutex classes (specified behaviour).  The pessimistic mutex keeps   *)
(* one exclusive lock marker per module name under {tmpDir}/{scope}; the   *)
(* no-op mutex keeps nothing.                                              *)
(***************************************************************************)
NoKey == <<"", "", "">>

\* a scope key that tells the namespaces of one module name apart
ScopeKey_WithNamespace(m, descriptor) ==
  <<m.tmpDir, m.scope, descriptor.name \o "@" \o descriptor.namespace>>

ScopeKey(m, descriptor) == <<m.tmpDir, m.scope, descriptor.name>>

Undefined == [kind |-> "undefined", key |-> NoKey]

ClaimedMutex(m, descriptor) ==
  IF m.kind = "Mutex"
    THEN [kind |-> "Mutex", key |-> ScopeKey(m, descriptor)]
    ELSE [kind |-> "NoopMutex", key |-> NoKey]

\* claim() can return: the no-op mutex always, the pessimistic one when the
\* marker of the scope key does not exist
CanClaim(m, descriptor, ms) ==
  m.kind = "Mutex" => ScopeKey(m, descriptor) \notin ms

\* the markers after a successful claim()
MarkersAfterClaim(m, descriptor, ms) ==
  IF m.kind = "Mutex" THEN ms \cup {ScopeKey(m, descriptor)} ELSE ms

\* the markers after release() of a claim
MarkersAfterRelease(c, ms) ==
  IF c.kind = "Mutex" THEN ms \ {c.key} ELSE ms

\* the descriptor passed to mutex.claim (line 21): of its fields name,
\* namespace and contentDir only the name enters the scope key
Descriptor(a) == [name |-> a.name, namespace |-> a.namespace, contentDir |-> a.contentDir]

(***************************************************************************)
(* The GitOps tree and the payload materializer (specified behaviour).  A  *)
(* tree gives every destination path its payload files and its Application *)
(* manifest.                                                               *)
(***************************************************************************)
\* the module written by the writers outside the invocations
ExternalName == "other"

Paths == Names \cup {ExternalName}

NoApplication == [namespace |-> Absent, path |-> Absent]

AbsentEntry == [payload |-> Absent, application |-> NoApplication]

EmptyTree == [n \in Paths |-> AbsentEntry]

\* the fields of GitOpsModuleInput the materializer reads
MaterializerInputs == [name : Names, namespace : Namespaces, contentDir : ContentDirs]

InputOf(a) == [name |-> a.name, namespace |-> a.namespace, contentDir |-> a.contentDir]

\* the destination path: applicationPath, which defaults to name
Destination(input) == input.name

\* the rendered Application manifest
Application(input) == [namespace |-> input.namespace, path |-> Destination(input)]

\* what populate leaves at the destination path
Entry(input) == [payload |-> input.contentDir, application |-> Application(input)]

\* a materializer that keeps what is at the destination and adds to it
populate_Appends(t, input) ==
  [t EXCEPT ![Destination(input)] =
     [payload |-> t[Destination(input)].payload \o input.contentDir,
      application |-> Application(input)]]

\* populate(workingCopy, input): copy the payload to the destination path and
\* render the Application manifest
populate(t, input) == [t EXCEPT ![Destination(input)] = Entry(input)]

\* a delete that leaves the Application manifest behind
delete_KeepsApplication(t, input) ==
  IF t[Destination(input)].payload = Absent
    THEN t
    ELSE [t EXCEPT ![Destination(input)].payload = Absent]

\* delete(workingCopy, input): remove the destination path and the Application
\* manifest; nothing to do when the path does not exist
delete(t, input) ==
  IF t[Destination(input)].payload = Absent
    THEN t
    ELSE [t EXCEPT ![Destination(input)] = AbsentEntry]

(***************************************************************************)
(* The remote repository (specified behaviour).                            *)
(***************************************************************************)
\* the content a writer outside the invocations puts at its path
ExternalEntry == [payload |-> "external", application |-> NoApplication]

\* a commit: its author and the entry it gives to one path
Commit(author, path, entry) == [author |-> author, path |-> path, entry |-> entry]

ApplyChange(t, c) == [t EXCEPT ![c.path] = c.entry]

RECURSIVE Replay(_)
\* the tree that results from applying the commits of log in order
Replay(log) ==
  IF log = <<>> THEN EmptyTree
  ELSE ApplyChange(Replay(SubSeq(log, 1, Len(log) - 1)), log[Len(log)])

\* the tree of commit b of the default branch
TreeAt(b) == Replay(SubSeq(remoteLog, 1, b))

\* no gitops command has started
InitGitops ==
  /\ argv = [i \in Invocations |-> NoArgv]
  /\ pc = [i \in Invocations |-> "idle"]
  /\ apiBound = [i \in Invocations |-> "GitopsModuleImpl"]
  /\ mutex = [i \in Invocations |-> NoMutex]
  /\ claim = [i \in Invocations |-> Undefined]
  /\ service = [i \in Invocations |-> "none"]
  /\ thrown = [i \in Invocations |-> NoError]
  /\ printed = [i \in Invocations |-> <<>>]
  /\ releases = [i \in Invocations |-> 0]
  /\ result = [i \in Invocations |-> [state |-> "pending", error |-> NoError]]
  /\ waited = [i \in Invocations |-> 0]
  /\ populated = [i \in Invocations |-> "none"]
  /\ attempts = [i \in Invocations |-> 0]
  /\ base = [i \in Invocations |-> 0]
  /\ wc = [i \in Invocations |-> EmptyTree]
  /\ pushed = [i \in Invocations |-> 0]
  /\ workDirs = {}
  /\ markers = {}
  /\ remoteLog = <<>>
  /\ remoteTree = EmptyTree
  /\ externals = 0

\* the materializer has not been applied
InitMaterializer ==
  /\ tree = EmptyTree
  /\ before = EmptyTree
  /\ opLog = <<>>

(***************************************************************************)
(* The parts of the program that are modelled on their own, before they    *)
(* run.                                                                    *)
(***************************************************************************)
NoRef == 0
NoExit == -1

\* no gitops command line has been parsed
InitCommand ==
  /\ layerDecl = 1
  /\ command = "none"
  /\ heap = <<>>
  /\ parsed = <<>>
  /\ passed = NoRef

\* no image command has been run
InitImage ==
  /\ imageArgv = <<>>
  /\ child = <<>>
  /\ console = <<>>
  /\ exitCode = NoExit

\* NamespaceImpl.create has not been called
InitNamespace ==
  /\ nsOptions = <<>>
  /\ nsPc = "none"
  /\ nsCalls = <<>>
  /\ nsNotified = <<>>
  /\ nsOutcome = "none"

\* the pull secret update has not been called
InitPullSecrets ==
  /\ kubeSecrets = <<>>
  /\ serviceAccount = <<>>
  /\ given = <<>>
  /\ returned = <<>>
  /\ updates = 0

Init ==
  /\ InitGitops
  /\ InitMaterializer
  /\ InitCommand
  /\ InitImage
  /\ InitNamespace
  /\ InitPullSecrets

(***************************************************************************)
(* Argument validation by the command builders (gitops-namespace.ts:28-39  *)
(* and 163-174): gitopsConfigFile and bootstrapRepoUrl each declare the    *)
(* other as `conflicts`, and both have `demandOption: false`.              *)
(***************************************************************************)
SuppliesBoth(a) == a.gitopsConfigFile # Absent /\ a.bootstrapRepoUrl # Absent

SuppliesNeither(a) == a.gitopsConfigFile = Absent /\ a.bootstrapRepoUrl = Absent

\* builders without the `conflicts` declarations
Validates_NoConflicts(a) == TRUE

Validates(a) == ~SuppliesBoth(a)

(***************************************************************************)
(* commonHandler (gitops-module-common.ts:9-31), one action per stretch of *)
(* code between two awaits.                                                *)
(***************************************************************************)
\* the CLI rejects the arguments a of S at validation; the handler is not
\* called
UsageWith(i, S) ==
  /\ pc[i] = "idle"
  /\ \E a \in S :
       /\ ~Validates(a)
       /\ argv' = [argv EXCEPT ![i] = a]
  /\ pc' = [pc EXCEPT ![i] = "usage"]
  /\ UNCHANGED <<apiBound, mutex, claim, service, thrown, printed, releases, result>>
  /\ UNCHANGED <<waited, populateVars, markers, remoteVars, unitVars>>

\* lines 9-17: the CLI calls the handler with validated arguments a of S; it
\* binds the API implementation and creates the mutex
StartWith(i, S) ==
  /\ pc[i] = "idle"
  /\ \E a \in S :
       /\ Validates(a)
       /\ argv' = [argv EXCEPT ![i] = a]
       /\ apiBound' = [apiBound EXCEPT ![i] = bindGitOpsModuleApi(a.lock)]
       /\ mutex' = [mutex EXCEPT ![i] = createMutex(a.lock, a.tmpDir, "gitops-module")]
  /\ pc' = [pc EXCEPT ![i] = "claim"]
  /\ UNCHANGED <<claim, service, thrown, printed, releases, result>>
  /\ UNCHANGED <<waited, populateVars, markers, remoteVars, unitVars>>

Start(i) == StartWith(i, ArgvSet)

\* line 21: `claim = await mutex.claim(...)` returns a claim
ClaimResolved(i) ==
  /\ pc[i] = "claim"
  /\ CanClaim(mutex[i], Descriptor(argv[i]), markers)
  /\ markers' = MarkersAfterClaim(mutex[i], Descriptor(argv[i]), markers)
  /\ claim' = [claim EXCEPT ![i] = ClaimedMutex(mutex[i], Descriptor(argv[i]))]
  /\ waited' = [waited EXCEPT ![i] = 0]
  /\ pc' = [pc EXCEPT ![i] = "getService"]
  /\ UNCHANGED <<argv, apiBound, mutex, service, thrown, printed, releases, result>>
  /\ UNCHANGED <<populateVars, remoteVars, unitVars>>

\* line 21, inside Mutex.claim (specified behaviour): the marker is held, the
\* bounded wait is not over, the claim backs off and looks again
ClaimWait(i) ==
  /\ pc[i] = "claim"
  /\ ~CanClaim(mutex[i], Descriptor(argv[i]), markers)
  /\ waited[i] < MaxWaits
  /\ waited' = [waited EXCEPT ![i] = waited[i] + 1]
  /\ UNCHANGED <<handlerVars, pc, thrown, populateVars, markers, remoteVars, unitVars>>

\* a handler that goes on after a rejected claim
ClaimRejected_Continues(i) ==
  /\ pc[i] = "claim"
  /\ ~CanClaim(mutex[i], Descriptor(argv[i]), markers)
  /\ waited[i] = MaxWaits
  /\ thrown' = [thrown EXCEPT ![i] = LockTimeoutError]
  /\ pc' = [pc EXCEPT ![i] = "getService"]
  /\ UNCHANGED <<handlerVars, waited, populateVars, markers, remoteVars, unitVars>>

\* a handler that calls mutex.claim again after a rejected claim
ClaimRejected_Retries(i) ==
  /\ pc[i] = "claim"
  /\ ~CanClaim(mutex[i], Descriptor(argv[i]), markers)
  /\ waited[i] = MaxWaits
  /\ printed' = [printed EXCEPT ![i] = Append(printed[i], LockTimeoutError)]
  /\ waited' = [waited EXCEPT ![i] = 0]
  /\ UNCHANGED <<argv, apiBound, mutex, claim, service, releases, result>>
  /\ UNCHANGED <<pc, thrown, populateVars, markers, remoteVars, unitVars>>

\* line 21 and 26: mutex.claim rejects because the marker stayed in place for
\* the whole bounded wait; control passes to the catch block
ClaimRejected(i) ==
  /\ pc[i] = "claim"
  /\ ~CanClaim(mutex[i], Descriptor(argv[i]), markers)
  /\ waited[i] = MaxWaits
  /\ thrown' = [thrown EXCEPT ![i] = LockTimeoutError]
  /\ pc' = [pc EXCEPT ![i] = "catch"]
  /\ UNCHANGED <<handlerVars, waited, populateVars, markers, remoteVars, unitVars>>

\* a handler that calls populate without awaiting it: the try block ends
\* while populate runs
GetService_NotAwaited(i) ==
  /\ pc[i] = "getService"
  /\ \/ /\ service' = [service EXCEPT ![i] = apiBound[i]]
        /\ populated' = [populated EXCEPT ![i] = "running"]
        /\ pc' = [pc EXCEPT ![i] = "finally"]
        /\ UNCHANGED thrown
     \/ /\ thrown' = [thrown EXCEPT ![i] = ContainerError]
        /\ pc' = [pc EXCEPT ![i] = "catch"]
        /\ UNCHANGED <<service, populated>>
  /\ UNCHANGED <<argv, apiBound, mutex, claim, printed, releases, result, waited>>
  /\ UNCHANGED <<attempts, base, wc, pushed, workDirs, markers, remoteVars, unitVars>>

\* line 23: Container.get(GitOpsModuleApi) returns the bound implementation,
\* or throws; line 25 then calls service.populate(argv), whatever argv.delete is
GetService(i) ==
  /\ pc[i] = "getService"
  /\ \/ /\ service' = [service EXCEPT ![i] = apiBound[i]]
        /\ populated' = [populated EXCEPT ![i] = "running"]
        /\ pc' = [pc EXCEPT ![i] = "resolve"]
        /\ UNCHANGED thrown
     \/ /\ thrown' = [thrown EXCEPT ![i] = ContainerError]
        /\ pc' = [pc EXCEPT ![i] = "catch"]
        /\ UNCHANGED <<service, populated>>
  /\ UNCHANGED <<argv, apiBound, mutex, claim, printed, releases, result, waited>>
  /\ UNCHANGED <<attempts, base, wc, pushed, workDirs, markers, remoteVars, unitVars>>

(***************************************************************************)
(* GitOpsModuleApi.populate (specified behaviour), awaited at line 25: the *)
(* sequence resolve config, sync, materialize, commit, push.  A rejection  *)
(* of populate passes control to the catch block of the handler.           *)
(***************************************************************************)
\* a release of the working copy that deletes the directory of the first
\* attempt only
ReleaseWorkingCopy_FirstAttemptOnly(i, dirs) == dirs \ {<<i, 1>>}

\* the release of the working copy of invocation i: its directory is deleted
ReleaseWorkingCopy(i, dirs) == {d \in dirs : d[1] # i}

\* populate rejects with error e
PopulateRejects(i, e) ==
  /\ thrown' = [thrown EXCEPT ![i] = e]
  /\ populated' = [populated EXCEPT ![i] = "rejected"]
  /\ base' = [base EXCEPT ![i] = 0]
  /\ wc' = [wc EXCEPT ![i] = EmptyTree]
  /\ workDirs' = ReleaseWorkingCopy(i, workDirs)
  /\ pc' = [pc EXCEPT ![i] = "catch"]

\* the config resolver: the config comes from gitopsConfigFile or from
\* bootstrapRepoUrl; with neither there is no source to read
Resolving(i) ==
  /\ pc[i] = "resolve"
  /\ \/ /\ ~SuppliesNeither(argv[i])
        /\ pc' = [pc EXCEPT ![i] = "sync"]
        /\ attempts' = [attempts EXCEPT ![i] = 1]
        /\ UNCHANGED <<thrown, populated, base, wc, workDirs>>
     \/ /\ PopulateRejects(i, ConfigResolutionError)
        /\ UNCHANGED attempts
  /\ UNCHANGED <<handlerVars, waited, pushed, markers, remoteVars, unitVars>>

\* checkout of the remote repository at its current tip into a new temporary
\* directory
Syncing(i) ==
  /\ pc[i] = "sync"
  /\ \/ /\ base' = [base EXCEPT ![i] = Len(remoteLog)]
        /\ wc' = [wc EXCEPT ![i] = remoteTree]
        /\ workDirs' = workDirs \cup {<<i, attempts[i]>>}
        /\ pc' = [pc EXCEPT ![i] = "materialize"]
        /\ UNCHANGED <<thrown, populated>>
     \/ PopulateRejects(i, AuthenticationError)
  /\ UNCHANGED <<handlerVars, waited, attempts, pushed, markers, remoteVars, unitVars>>

\* the payload materializer changes the working copy: delete when
\* options.delete is set, populate otherwise
Materializing(i) ==
  /\ pc[i] = "materialize"
  /\ \/ /\ wc' = [wc EXCEPT ![i] =
                    IF argv[i].delete
                      THEN delete(wc[i], InputOf(argv[i]))
                      ELSE populate(wc[i], InputOf(argv[i]))]
        /\ pc' = [pc EXCEPT ![i] = "commit"]
        /\ UNCHANGED <<thrown, populated, base, workDirs>>
     \/ PopulateRejects(i, MaterializationError)
  /\ UNCHANGED <<handlerVars, waited, attempts, pushed, markers, remoteVars, unitVars>>

\* a diff that reports a change for every working copy
HasDiff_Always(workingCopy, baseTree) == TRUE

\* the diff of the working copy against the tree it was checked out at
HasDiff(workingCopy, baseTree) == workingCopy # baseTree

\* the commit in the working copy; without a diff there is nothing to commit
\* and populate resolves as a no-op
Committing(i) ==
  /\ pc[i] = "commit"
  /\ IF HasDiff(wc[i], TreeAt(base[i]))
       THEN /\ pc' = [pc EXCEPT ![i] = "push"]
            /\ UNCHANGED <<populated, base, wc, workDirs>>
       ELSE /\ populated' = [populated EXCEPT ![i] = "resolved"]
            /\ base' = [base EXCEPT ![i] = 0]
            /\ wc' = [wc EXCEPT ![i] = EmptyTree]
            /\ workDirs' = ReleaseWorkingCopy(i, workDirs)
            /\ pc' = [pc EXCEPT ![i] = "finally"]
  /\ UNCHANGED <<handlerVars, waited, thrown, attempts, pushed, markers, remoteVars, unitVars>>

\* the remote takes a change made on base b only when the default branch
\* still is at b
RemoteAccepts(b, log) == b = Len(log)

\* StaleBaseError is a retry trigger for the pull-request implementation only
RetriesStaleBase(impl) == impl = "GitopsModulePRImpl"

\* the commit invocation i pushes: what its working copy has at the
\* destination path
CommitOf(i) == Commit(i, Destination(InputOf(argv[i])), wc[i][Destination(InputOf(argv[i]))])

\* the push (direct, or branch + pull request + merge) is accepted: populate
\* resolves, the working copy is deleted and the try block completes
PushAccepted(i) ==
  /\ pc[i] = "push"
  /\ RemoteAccepts(base[i], remoteLog)
  /\ remoteLog' = Append(remoteLog, CommitOf(i))
  /\ remoteTree' = wc[i]
  /\ pushed' = [pushed EXCEPT ![i] = pushed[i] + 1]
  /\ populated' = [populated EXCEPT ![i] = "resolved"]
  /\ base' = [base EXCEPT ![i] = 0]
  /\ wc' = [wc EXCEPT ![i] = EmptyTree]
  /\ workDirs' = ReleaseWorkingCopy(i, workDirs)
  /\ pc' = [pc EXCEPT ![i] = "finally"]
  /\ UNCHANGED <<handlerVars, waited, thrown, attempts, markers, externals, unitVars>>

\* the remote rejects the push or merge because the default branch advanced.
\* The pull-request implementation has pushed its branch and opened its pull
\* request by then; a direct push leaves nothing on the remote
PushStale(i) ==
  /\ pc[i] = "push"
  /\ ~RemoteAccepts(base[i], remoteLog)
  /\ IF RetriesStaleBase(service[i])
       THEN /\ pushed' = [pushed EXCEPT ![i] = pushed[i] + 1]
            /\ IF attempts[i] < RetryCeiling
                 THEN /\ attempts' = [attempts EXCEPT ![i] = attempts[i] + 1]
                      /\ base' = [base EXCEPT ![i] = 0]
                      /\ wc' = [wc EXCEPT ![i] = EmptyTree]
                      /\ workDirs' = ReleaseWorkingCopy(i, workDirs)
                      /\ pc' = [pc EXCEPT ![i] = "sync"]
                      /\ UNCHANGED <<thrown, populated>>
                 ELSE /\ PopulateRejects(i, GitOpsPopulateError(StaleBaseError))
                      /\ UNCHANGED attempts
       ELSE /\ PopulateRejects(i, StaleBaseError)
            /\ UNCHANGED <<attempts, pushed>>
  /\ UNCHANGED <<handlerVars, waited, markers, remoteVars, unitVars>>

\* the remote rejects the credential
PushUnauthorized(i) ==
  /\ pc[i] = "push"
  /\ PopulateRejects(i, AuthenticationError)
  /\ UNCHANGED <<handlerVars, waited, attempts, pushed, markers, remoteVars, unitVars>>

(***************************************************************************)
(* commonHandler, catch and finally (gitops-module-common.ts:26-30).       *)
(***************************************************************************)
\* lines 26-27: console.error('Error running populate', err)
Catch(i) ==
  /\ pc[i] = "catch"
  /\ printed' = [printed EXCEPT ![i] = Append(printed[i], thrown[i])]
  /\ thrown' = [thrown EXCEPT ![i] = NoError]
  /\ pc' = [pc EXCEPT ![i] = "finally"]
  /\ UNCHANGED <<argv, apiBound, mutex, claim, service, releases, result>>
  /\ UNCHANGED <<waited, populateVars, markers, remoteVars, unitVars>>

\* a handler that releases at the end of the try block instead of in finally:
\* the release is skipped when an error was caught
Finally_ReleaseInTry(i) ==
  /\ pc[i] = "finally"
  /\ IF claim[i] = Undefined \/ printed[i] # <<>>
       THEN /\ result' = [result EXCEPT ![i] = [state |-> "resolved", error |-> NoError]]
            /\ UNCHANGED <<releases, markers>>
       ELSE /\ markers' = MarkersAfterRelease(claim[i], markers)
            /\ releases' = [releases EXCEPT ![i] = releases[i] + 1]
            /\ result' = [result EXCEPT ![i] = [state |-> "resolved", error |-> NoError]]
  /\ pc' = [pc EXCEPT ![i] = "done"]
  /\ UNCHANGED <<argv, apiBound, mutex, claim, service, thrown, printed>>
  /\ UNCHANGED <<waited, populateVars, remoteVars, unitVars>>

\* lines 28-30: `await claim.release()`; with claim undefined the member
\* access throws a TypeError out of the finally block, otherwise the error
\* caught above is gone and the handler returns normally
Finally(i) ==
  /\ pc[i] = "finally"
  /\ IF claim[i] = Undefined
       THEN /\ result' = [result EXCEPT ![i] = [state |-> "rejected", error |-> TypeError]]
            /\ UNCHANGED <<releases, markers>>
       ELSE /\ markers' = MarkersAfterRelease(claim[i], markers)
            /\ releases' = [releases EXCEPT ![i] = releases[i] + 1]
            /\ result' = [result EXCEPT ![i] = [state |-> "resolved", error |-> NoError]]
  /\ pc' = [pc EXCEPT ![i] = "done"]
  /\ UNCHANGED <<argv, apiBound, mutex, claim, service, thrown, printed>>
  /\ UNCHANGED <<waited, populateVars, remoteVars, unitVars>>

(***************************************************************************)
(* The environment: another writer lands a commit on the default branch.   *)
(***************************************************************************)
ExternalPush ==
  /\ externals < MaxExternalPushes
  /\ remoteLog' = Append(remoteLog, Commit(External, ExternalName, ExternalEntry))
  /\ remoteTree' = ApplyChange(remoteTree, Commit(External, ExternalName, ExternalEntry))
  /\ externals' = externals + 1
  /\ UNCHANGED <<handlerVars, pc, thrown, waited, populateVars, markers, unitVars>>

\* every step of an invocation after its start, and the environment
Steps ==
  \/ \E i \in Invocations : ClaimResolved(i)
  \/ \E i \in Invocations : ClaimWait(i)
  \/ \E i \in Invocations : ClaimRejected(i)
  \/ \E i \in Invocations : GetService(i)
  \/ \E i \in Invocations : Resolving(i)
  \/ \E i \in Invocations : Syncing(i)
  \/ \E i \in Invocations : Materializing(i)
  \/ \E i \in Invocations : Committing(i)
  \/ \E i \in Invocations : PushAccepted(i)
  \/ \E i \in Invocations : PushStale(i)
  \/ \E i \in Invocations : PushUnauthorized(i)
  \/ \E i \in Invocations : Catch(i)
  \/ \E i \in Invocations : Finally(i)
  \/ ExternalPush

Next ==
  \/ \E i \in Invocations : Start(i)
  \/ Steps

Spec == Init /\ [][Next]_vars

(***************************************************************************)
(* The commands as the CLI runs them: every combination of --delete,       *)
(* --gitopsConfigFile and --bootstrapRepoUrl, validated by the builder     *)
(* before the handler is called.                                           *)
(***************************************************************************)
StartCli(i) == StartWith(i, CliArgv)

UsageCli(i) == UsageWith(i, CliArgv)

NextCli ==
  \/ \E i \in Invocations : StartCli(i)
  \/ \E i \in Invocations : UsageCli(i)
  \/ Steps

SpecCli == Init /\ [][NextCli]_vars

(***************************************************************************)
(* Pessimistic invocations that differ in name, namespace, contentDir and  *)
(* tmpDir.                                                                 *)
(***************************************************************************)
StartScope(i) == StartWith(i, ScopeArgv)

NextScope ==
  \/ \E i \in Invocations : StartScope(i)
  \/ Steps

SpecScope == Init /\ [][NextScope]_vars

(***************************************************************************)
(* Pessimistic invocations on one lock directory, with a claim that keeps  *)
(* running: mutex.claim polls on a timer of its own, so a pending claim    *)
(* always takes its next step.                                             *)
(***************************************************************************)
StartWait(i) == StartWith(i, WaitArgv)

NextWait ==
  \/ \E i \in Invocations : StartWait(i)
  \/ Steps

ClaimStep(i) == ClaimResolved(i) \/ ClaimWait(i) \/ ClaimRejected(i)

SpecWait ==
  /\ Init
  /\ [][NextWait]_vars
  /\ \A i \in Invocations : WF_vars(ClaimStep(i))

(***************************************************************************)
(* The payload materializer on its own: up to MaxOperations populate and   *)
(* delete operations applied in a row to one tree.                         *)
(***************************************************************************)
Operation(kind, input) == [kind |-> kind, input |-> input]

MaterializerPopulate(input) ==
  /\ Len(opLog) < MaxOperations
  /\ tree' = populate(tree, input)
  /\ before' = tree
  /\ opLog' = Append(opLog, Operation("populate", input))
  /\ UNCHANGED <<gitopsVars, commandVars, imageVars, namespaceVars, pullSecretVars>>

MaterializerDelete(input) ==
  /\ Len(opLog) < MaxOperations
  /\ tree' = delete(tree, input)
  /\ before' = tree
  /\ opLog' = Append(opLog, Operation("delete", input))
  /\ UNCHANGED <<gitopsVars, commandVars, imageVars, namespaceVars, pullSecretVars>>

NextMaterializer ==
  \/ \E input \in MaterializerInputs : MaterializerPopulate(input)
  \/ \E input \in MaterializerInputs : MaterializerDelete(input)

SpecMaterializer == Init /\ [][NextMaterializer]_vars

(***************************************************************************)
(* The gitops-module and gitops-namespace commands from the command line   *)
(* to the call of commonHandler (gitops-namespace.ts), with the layer      *)
(* names of gitops-module.api.ts.  JavaScript values are strings here; an  *)
(* object gives every key a value, UndefinedValue for a key it lacks.      *)
(***************************************************************************)
UndefinedValue == "undefined"
JsTrue == "true"
JsFalse == "false"

\* gitops-module.api.ts:20-25: the sections of GitOpsConfig
LayerConfigKeys == {"infrastructure", "services", "applications"}
GitOpsConfigKeys == {"bootstrap"} \cup LayerConfigKeys

\* gitops-module.api.ts:35-39
GitOpsLayerFirst ==
  [infrastructure |-> "infrastructure", services |-> "services",
   applications |-> "applications"]

\* gitops-module.api.ts:115-119
GitOpsLayerSecond ==
  [infrastructure |-> "infrastructure", service |-> "service",
   application |-> "application"]

\* the file declares the enum twice: a build takes the first declaration,
\* the second, or merges the two
Declarations == {1, 2, 3}

GitOpsLayer(decl) ==
  CASE decl = 1 -> GitOpsLayerFirst
    [] decl = 2 -> GitOpsLayerSecond
    [] OTHER -> GitOpsLayerFirst @@ GitOpsLayerSecond

\* the member access enum.m
Member(enum, m) == IF m \in DOMAIN enum THEN enum[m] ELSE UndefinedValue

\* gitops-namespace.ts:160: the choices of the layer option of gitops-module
LayerChoices(decl) ==
  {Member(GitOpsLayer(decl), m) : m \in {"infrastructure", "services", "applications"}}

Commands == {"gitops-module", "gitops-namespace"}

\* the keys of the argument object that matter here
Keys == {"name", "lock", "layer", "isNamespace"}

\* what a command line can give for --layer and --isNamespace, or leave out
CommandLineLayers ==
  {"infrastructure", "services", "applications", "service", "application",
   "bogus", UndefinedValue}
CommandLineFlags == {JsTrue, JsFalse, UndefinedValue}

CommandLines ==
  [name : Names, lock : {"optimistic", "p"}, layer : CommandLineLayers,
   isNamespace : CommandLineFlags]

EmptyObject == [k \in Keys |-> UndefinedValue]

\* Object.assign(target, source): the properties of source are written to
\* target; the result is the new content of target
Assign(target, source) ==
  [k \in Keys |-> IF source[k] # UndefinedValue THEN source[k] ELSE target[k]]

\* gitops-namespace.ts:123-124
NamespaceOverrides ==
  [EmptyObject EXCEPT !["isNamespace"] = JsTrue, !["layer"] = "infrastructure"]

\* yargs checks a supplied --layer against the choices of gitops-module; the
\* builder of gitops-namespace declares no layer option
LayerAccepted(decl, cmd, a) ==
  cmd = "gitops-module" /\ a.layer # UndefinedValue => a.layer \in LayerChoices(decl)

HandlerNotCalled == -1

\* a handler of gitops-namespace that assigns the two fields to argv itself
gitopsNamespaceHandler_AssignsToArgv(h, ref) ==
  [heap |-> [h EXCEPT ![ref] = Assign(h[ref], NamespaceOverrides)], passed |-> ref]

\* gitops-namespace.ts:118-128: Object.assign({}, argv, {isNamespace: true,
\* layer: 'infrastructure'}) makes a new object, which is passed on
gitopsNamespaceHandler(h, ref) ==
  [heap |-> Append(h, Assign(Assign(EmptyObject, h[ref]), NamespaceOverrides)),
   passed |-> Len(h) + 1]

\* gitops-namespace.ts:260-262: argv itself is passed on
gitopsModuleHandler(h, ref) == [heap |-> h, passed |-> ref]

\* the reference of argv in the heap
ArgvRef == 1

\* a command line was parsed by a build of the commands
InitCommandLine ==
  /\ layerDecl \in Declarations
  /\ command \in Commands
  /\ parsed \in CommandLines
  /\ heap = <<parsed>>
  /\ passed = NoRef

\* yargs rejects the command line
CommandRejected ==
  /\ passed = NoRef
  /\ ~LayerAccepted(layerDecl, command, parsed)
  /\ passed' = HandlerNotCalled
  /\ UNCHANGED <<layerDecl, command, heap, parsed>>
  /\ UNCHANGED <<gitopsVars, materializerVars, imageVars, namespaceVars, pullSecretVars>>

\* exports.handler of gitops-namespace calls commonHandler
GitopsNamespaceHandler ==
  /\ passed = NoRef
  /\ command = "gitops-namespace"
  /\ LayerAccepted(layerDecl, command, parsed)
  /\ heap' = gitopsNamespaceHandler(heap, ArgvRef).heap
  /\ passed' = gitopsNamespaceHandler(heap, ArgvRef).passed
  /\ UNCHANGED <<layerDecl, command, parsed>>
  /\ UNCHANGED <<gitopsVars, materializerVars, imageVars, namespaceVars, pullSecretVars>>

\* exports.handler of gitops-module calls commonHandler
GitopsModuleHandler ==
  /\ passed = NoRef
  /\ command = "gitops-module"
  /\ LayerAccepted(layerDecl, command, parsed)
  /\ heap' = gitopsModuleHandler(heap, ArgvRef).heap
  /\ passed' = gitopsModuleHandler(heap, ArgvRef).passed
  /\ UNCHANGED <<layerDecl, command, parsed>>
  /\ UNCHANGED <<gitopsVars, materializerVars, imageVars, namespaceVars, pullSecretVars>>

NextCommandLine ==
  \/ CommandRejected
  \/ GitopsNamespaceHandler
  \/ GitopsModuleHandler

\* nothing else runs
CommandLineOnly ==
  /\ InitGitops /\ InitMaterializer /\ InitImage /\ InitNamespace /\ InitPullSecrets
  /\ InitCommandLine

SpecCommandLine == CommandLineOnly /\ [][NextCommandLine]_vars

(***************************************************************************)
(* The build, deploy and cr commands of ibmcloud-image (index.ts:141-233): *)
(* the handler starts a child process with execFile, the callback runs     *)
(* when the child has exited.                                              *)
(***************************************************************************)
ImageCommands == {"build", "deploy", "cr"}

\* the arguments the handlers read; a flag that was not given is FALSE
ImageArgvs == [command : ImageCommands, debug : BOOLEAN, quiet : BOOLEAN]

\* the file each handler executes (lines 150, 191, 219-220)
ExecFileOf(cmd) ==
  CASE cmd = "build" -> "../bin/build-image.sh"
    [] cmd = "deploy" -> "../bin/deploy-image.sh"
    [] OTHER -> "ibmcloud cr"

\* what a child can have written to stdout and to stderr
Stdouts == {"", "step 1/2", "done"}
Stderrs == {"", "warning: deprecated"}

\* the code of process.exit(1)
ExitFailure == 1

NoChild == [state |-> "none", file |-> "", error |-> FALSE, stdout |-> "", stderr |-> ""]

\* one call of console.log or console.error
Written(stream, what, text) == [stream |-> stream, what |-> what, text |-> text]

\* the callback as it would be with the error report inside the quiet test
callback_QuietHidesError(a, error, stdout, stderr, written) ==
  [console |->
     written
       \o (IF ~a.quiet THEN <<Written("log", "stdout", stdout), Written("error", "stderr", stderr)>>
           ELSE <<>>)
       \o (IF ~a.quiet /\ error THEN <<Written("log", "error", "error")>> ELSE <<>>),
   exitCode |-> IF ~a.quiet /\ error THEN ExitFailure ELSE NoExit]

\* the callback of execFile (lines 153-162, 194-203, 222-231): what is on the
\* console after it and the exit code it asked for
callback(a, error, stdout, stderr, written) ==
  [console |->
     written
       \o (IF ~a.quiet THEN <<Written("log", "stdout", stdout), Written("error", "stderr", stderr)>>
           ELSE <<>>)
       \o (IF error THEN <<Written("log", "error", "error")>> ELSE <<>>),
   exitCode |-> IF error THEN ExitFailure ELSE NoExit]

\* a command line of ibmcloud-image was parsed
InitImageCommand ==
  /\ imageArgv \in ImageArgvs
  /\ child = NoChild
  /\ console = <<>>
  /\ exitCode = NoExit

\* the command handler (lines 146-152, 187-193, 215-221)
ImageHandler ==
  /\ child.state = "none"
  /\ console' = IF imageArgv.debug
                  THEN Append(console, Written("log", "arguments", "argv"))
                  ELSE console
  /\ child' = [NoChild EXCEPT !.state = "running", !.file = ExecFileOf(imageArgv.command)]
  /\ UNCHANGED <<imageArgv, exitCode>>
  /\ UNCHANGED <<gitopsVars, materializerVars, commandVars, namespaceVars, pullSecretVars>>

\* the child exits, with an error or without, and execFile calls the callback
ChildExits(error, stdout, stderr) ==
  /\ child.state = "running"
  /\ child' = [child EXCEPT !.state = "exited", !.error = error,
                            !.stdout = stdout, !.stderr = stderr]
  /\ console' = callback(imageArgv, error, stdout, stderr, console).console
  /\ exitCode' = callback(imageArgv, error, stdout, stderr, console).exitCode
  /\ UNCHANGED imageArgv
  /\ UNCHANGED <<gitopsVars, materializerVars, commandVars, namespaceVars, pullSecretVars>>

NextImage ==
  \/ ImageHandler
  \/ \E error \in BOOLEAN, stdout \in Stdouts, stderr \in Stderrs :
       ChildExits(error, stdout, stderr)

\* nothing else runs
ImageCommandOnly ==
  /\ InitGitops /\ InitMaterializer /\ InitCommand /\ InitNamespace /\ InitPullSecrets
  /\ InitImageCommand

SpecImage == ImageCommandOnly /\ [][NextImage]_vars

(***************************************************************************)
(* NamespaceImpl.create (namespace.ts:100-141).  Each action is one await  *)
(* of create: the notification before the call, the call, and what create  *)
(* does with its outcome.  The collaborators (cluster type, namespace      *)
(* manager, role bindings, copies, SCC setup, kubectl) resolve or reject.  *)
(***************************************************************************)
ClusterTypes == {"openshift", "kubernetes"}

\* the options create reads and the type of the cluster it runs against;
\* sameNamespace: namespace === templateNamespace
NamespaceOptions ==
  [clusterType : ClusterTypes, tekton : BOOLEAN, argocd : BOOLEAN, sameNamespace : BOOLEAN]

\* line 104: the namespace manager create uses
nsManager(o) == IF o.clusterType = "openshift" THEN "projects" ELSE "namespaces"

\* line 105
label(o) == IF o.clusterType = "openshift" THEN "project" ELSE "namespace"

\* one awaited call and how it settled
Called(op, how) == [op |-> op, result |-> how]

Settled(ok) == IF ok THEN "ok" ELSE "error"

\* a rejection that nothing in create catches
Propagates ==
  /\ nsPc' = "done"
  /\ nsOutcome' = "rejected"

\* progress(promise, label) of util/progress-bar, awaited at lines 123-124:
\* settles as the promise it is given
progress(ok) == ok

\* copyConfigMaps and copySecrets return before any call when the two
\* namespaces are the same (lines 221-223, 231-233)
CopySettles(o, ok) == o.sameNamespace \/ ok

InitCreate ==
  /\ nsOptions \in NamespaceOptions
  /\ nsPc = "getClusterType"
  /\ nsCalls = <<>>
  /\ nsNotified = <<>>
  /\ nsOutcome = "pending"

NamespaceFrame ==
  /\ UNCHANGED nsOptions
  /\ UNCHANGED <<gitopsVars, materializerVars, commandVars, imageVars, pullSecretVars>>

\* line 102
GetClusterType(ok) ==
  /\ nsPc = "getClusterType"
  /\ nsCalls' = Append(nsCalls, Called("getClusterType", Settled(ok)))
  /\ IF ok THEN nsPc' = "exists" /\ UNCHANGED nsOutcome ELSE Propagates
  /\ UNCHANGED nsNotified
  /\ NamespaceFrame

\* lines 107-108: the namespace is there, is not there, or the call rejects
Exists(answer) ==
  /\ nsPc = "exists"
  /\ nsNotified' = Append(nsNotified, "Checking for existing " \o label(nsOptions))
  /\ nsCalls' = Append(nsCalls, Called(nsManager(nsOptions) \o ".exists", answer))
  /\ CASE answer = "true" -> nsPc' = "configure" /\ UNCHANGED nsOutcome
       [] answer = "false" -> nsPc' = "create" /\ UNCHANGED nsOutcome
       [] OTHER -> Propagates
  /\ NamespaceFrame

\* lines 109-110
NsManagerCreate(ok) ==
  /\ nsPc = "create"
  /\ nsNotified' = Append(nsNotified, "Creating " \o label(nsOptions))
  /\ nsCalls' = Append(nsCalls, Called(nsManager(nsOptions) \o ".create", Settled(ok)))
  /\ IF ok THEN nsPc' = "configure" /\ UNCHANGED nsOutcome ELSE Propagates
  /\ NamespaceFrame

\* lines 113-119: the catch notifies and create goes on
GrantPermissionToArgoCD(ok) ==
  /\ nsPc = "configure"
  /\ nsOptions.argocd
  /\ nsCalls' = Append(nsCalls, Called("grantPermissionToArgoCD", Settled(ok)))
  /\ nsNotified' =
       nsNotified \o <<"Giving ArgoCD service accounts permission">>
                  \o (IF ok THEN <<>> ELSE <<"  Error granting ArgoCD permission">>)
  /\ nsPc' = "setCurrentProject"
  /\ UNCHANGED nsOutcome
  /\ NamespaceFrame

\* line 123
CopyConfigMaps(ok) ==
  /\ nsPc = "configure"
  /\ ~nsOptions.argocd
  /\ nsCalls' = Append(nsCalls, Called("copyConfigMaps", Settled(CopySettles(nsOptions, ok))))
  /\ IF progress(CopySettles(nsOptions, ok))
       THEN nsPc' = "copySecrets" /\ UNCHANGED nsOutcome
       ELSE Propagates
  /\ UNCHANGED nsNotified
  /\ NamespaceFrame

\* lines 124, 126
CopySecrets(ok) ==
  /\ nsPc = "copySecrets"
  /\ nsCalls' = Append(nsCalls, Called("copySecrets", Settled(CopySettles(nsOptions, ok))))
  /\ IF progress(CopySettles(nsOptions, ok))
       THEN /\ nsPc' = IF nsOptions.tekton THEN "setupTektonPipelineSA" ELSE "setCurrentProject"
            /\ UNCHANGED nsOutcome
       ELSE Propagates
  /\ UNCHANGED nsNotified
  /\ NamespaceFrame

\* lines 126-134 as they would be with a catch that does not throw
SetupTektonPipelineSA_Swallows(ok) ==
  /\ nsPc = "setupTektonPipelineSA"
  /\ nsCalls' = Append(nsCalls, Called("setupTektonPipelineSA", Settled(ok)))
  /\ nsNotified' =
       nsNotified \o <<"Adding privileged SCC to pipeline service account">>
                  \o (IF ok THEN <<>> ELSE <<"  Error adding SCC">>)
  /\ nsPc' = "setCurrentProject"
  /\ UNCHANGED nsOutcome
  /\ NamespaceFrame

\* lines 126-134: the catch notifies and throws the error again
SetupTektonPipelineSA(ok) ==
  /\ nsPc = "setupTektonPipelineSA"
  /\ nsCalls' = Append(nsCalls, Called("setupTektonPipelineSA", Settled(ok)))
  /\ nsNotified' =
       nsNotified \o <<"Adding privileged SCC to pipeline service account">>
                  \o (IF ok THEN <<>> ELSE <<"  Error adding SCC">>)
  /\ IF ok THEN nsPc' = "setCurrentProject" /\ UNCHANGED nsOutcome ELSE Propagates
  /\ NamespaceFrame

\* lines 137-140
SetCurrentProject(ok) ==
  /\ nsPc = "setCurrentProject"
  /\ nsNotified' = Append(nsNotified, "Setting current " \o label(nsOptions))
  /\ nsCalls' = Append(nsCalls, Called("setCurrentProject", Settled(ok)))
  /\ nsPc' = "done"
  /\ nsOutcome' = IF ok THEN "resolved" ELSE "rejected"
  /\ NamespaceFrame

NextCreate ==
  \/ \E ok \in BOOLEAN : GetClusterType(ok)
  \/ \E answer \in {"true", "false", "error"} : Exists(answer)
  \/ \E ok \in BOOLEAN : NsManagerCreate(ok)
  \/ \E ok \in BOOLEAN : GrantPermissionToArgoCD(ok)
  \/ \E ok \in BOOLEAN : CopyConfigMaps(ok)
  \/ \E ok \in BOOLEAN : CopySecrets(ok)
  \/ \E ok \in BOOLEAN : SetupTektonPipelineSA(ok)
  \/ \E ok \in BOOLEAN : SetCurrentProject(ok)

\* nothing else runs
CreateOnly ==
  /\ InitGitops /\ InitMaterializer /\ InitCommand /\ InitImage /\ InitPullSecrets
  /\ InitCreate

SpecNamespace == CreateOnly /\ [][NextCreate]_vars

(***************************************************************************)
(* The image pull secrets of a service account (namespace.ts:248-309).     *)
(* A secret name is the sequence of its parts, so that a pattern can be    *)
(* looked for inside it.  An entry {name} of imagePullSecrets is an object:*)
(* ref tells two objects of the same name apart, as includes() does.       *)
(***************************************************************************)
SecretNames == {<<"all-", "icr-io">>, <<"icr-io", "-mirror">>, <<"registry-token">>}

\* line 251: '.*icr-io', without anchors: any text, then icr-io, anywhere
PullSecretPattern == "icr-io"

\* String.prototype.match with this pattern (line 307)
Matches(name, pattern) == \E k \in 1..Len(name) : name[k] = pattern

\* the sequences of at most two different names
NameLists ==
  {<<>>} \cup {<<n>> : n \in SecretNames}
         \cup {p \in SecretNames \X SecretNames : p[1] # p[2]}

\* the objects of a list of names, in the order they were allocated
ObjectsOf(names, lastRef) ==
  [k \in 1..Len(names) |-> [ref |-> lastRef + k, name |-> names[k]]]

\* the service accounts serviceAccounts.get can answer with
ServiceAccounts ==
  {[namespace |-> "dev", hasImagePullSecrets |-> FALSE, imagePullSecrets |-> <<>>]}
    \cup {[namespace |-> "dev", hasImagePullSecrets |-> TRUE,
           imagePullSecrets |-> ObjectsOf(names, 0)] : names \in NameLists}

NamesOf(array) == [k \in 1..Len(array) |-> array[k].name]

\* the greatest reference in use
LastRef(array) ==
  IF array = <<>> THEN 0
  ELSE CHOOSE r \in {array[k].ref : k \in 1..Len(array)} :
         \A k \in 1..Len(array) : array[k].ref <= r

\* Array.prototype.includes on objects: the same object, not an equal one
includes(array, element) == \E k \in 1..Len(array) : array[k].ref = element.ref

\* lines 301-309: the matching secrets of the namespace, each a new object
listMatchingSecrets(pattern, secretsOfNamespace, lastRef) ==
  ObjectsOf(SelectSeq(secretsOfNamespace, LAMBDA name : Matches(name, pattern)), lastRef)

\* lines 290-296: the reducer applied to the pull secrets from left to right
RECURSIVE reduce(_, _)
reduce(pullSecrets, secrets) ==
  IF pullSecrets = <<>> THEN secrets
  ELSE LET secret == Head(pullSecrets)
       IN  reduce(Tail(pullSecrets),
                  IF ~includes(secrets, secret) THEN Append(secrets, secret) ELSE secrets)

\* (serviceAccount.imagePullSecrets || []).slice(), line 296: a copy
slice(sa) == IF sa.hasImagePullSecrets THEN sa.imagePullSecrets ELSE <<>>

\* lines 282-299: the service account that is returned; the one that was
\* given is read only
updateServiceAccountWithPullSecretsMatchingPattern(sa, pattern, secretsOfNamespace) ==
  LET pullSecrets == listMatchingSecrets(pattern, secretsOfNamespace, LastRef(slice(sa)))
  IN  [sa EXCEPT !.hasImagePullSecrets = TRUE,
                 !.imagePullSecrets = reduce(pullSecrets, slice(sa))]

\* a namespace with its secrets and a service account read from it
InitServiceAccount ==
  /\ kubeSecrets \in NameLists
  /\ serviceAccount \in ServiceAccounts
  /\ given = serviceAccount
  /\ returned = serviceAccount
  /\ updates = 0

\* lines 249-255: the service account as read is updated
Update ==
  /\ updates = 0
  /\ given' = serviceAccount
  /\ returned' =
       updateServiceAccountWithPullSecretsMatchingPattern(
         serviceAccount, PullSecretPattern, kubeSecrets)
  /\ updates' = 1
  /\ UNCHANGED <<kubeSecrets, serviceAccount>>
  /\ UNCHANGED <<gitopsVars, materializerVars, commandVars, imageVars, namespaceVars>>

\* the update is applied to what it returned, the secrets being the same
UpdateAgain ==
  /\ updates >= 1
  /\ updates < MaxUpdates
  /\ given' = returned
  /\ returned' =
       updateServiceAccountWithPullSecretsMatchingPattern(
         returned, PullSecretPattern, kubeSecrets)
  /\ updates' = updates + 1
  /\ UNCHANGED <<kubeSecrets, serviceAccount>>
  /\ UNCHANGED <<gitopsVars, materializerVars, commandVars, imageVars, namespaceVars>>

NextPullSecrets == Update \/ UpdateAgain

\* nothing else runs
PullSecretsOnly ==
  /\ InitGitops /\ InitMaterializer /\ InitCommand /\ InitImage /\ InitNamespace
  /\ InitServiceAccount

SpecPullSecrets == PullSecretsOnly /\ [][NextPullSecrets]_vars

(***************************************************************************)
(* The CLI layer (specified behaviour): the exit code of the process for a *)
(* settled handler promise.                                                *)
(***************************************************************************)
ExitCode(r) == IF r.state = "resolved" THEN 0 ELSE 1

(***************************************************************************)
(* Vocabulary of the properties.                                           *)
(***************************************************************************)
\* the error the try block of invocation i ended with, NoError so far
Caught(i) ==
  IF thrown[i] # NoError THEN thrown[i]
  ELSE IF printed[i] # <<>> THEN printed[i][1]
  ELSE NoError

\* mutex.claim of invocation i was rejected
ClaimFailed(i) == Caught(i) = LockTimeoutError

\* invocation i obtained a claim and has not released it
Holds(i) == claim[i] # Undefined /\ releases[i] = 0

\* invocation i is inside populate
InPopulate(i) == pc[i] \in {"resolve", "sync", "materialize", "commit", "push"}

\* the lock markers of the claims that are held
HeldMarkers == {claim[i].key : i \in {j \in Invocations : Holds(j) /\ claim[j].kind = "Mutex"}}

Pessimistic(i) == argv[i].lock \in {"pessimistic", "p"}
Branch(i) == argv[i].lock \in {"branch", "b"}

(***************************************************************************)
(* C1.  Every successful claim is released exactly once on every exit path *)
(* of commonHandler: never more than once, never without a claim, and once *)
(* the handler is done every claim it obtained has been released once,     *)
(* whether populate resolved, populate rejected or the service lookup      *)
(* threw; the only lock markers left are those of claims still held.       *)
(***************************************************************************)
C1_ReleasedExactlyOnce ==
  /\ \A i \in Invocations :
       /\ releases[i] <= 1
       /\ releases[i] = 1 => claim[i] # Undefined
       /\ pc[i] = "done" /\ claim[i] # Undefined => releases[i] = 1
  /\ markers = HeldMarkers

\* a handler that claimed the file lock, saw populate reject and is done
C1_Witness ==
  \E i \in Invocations :
    /\ pc[i] = "done"
    /\ claim[i].kind = "Mutex"
    /\ populated[i] = "rejected"
    /\ releases[i] = 1

(***************************************************************************)
(* C2.  A failed populate reaches the CLI layer as a failure: a handler    *)
(* that is done after populate rejected gives a non-zero exit code, and    *)
(* exit code 0 is given only when populate resolved.                       *)
(***************************************************************************)
C2_FailedPopulateExitsNonZero ==
  \A i \in Invocations :
    pc[i] = "done" =>
      /\ populated[i] = "rejected" => ExitCode(result[i]) # 0
      /\ ExitCode(result[i]) = 0 => populated[i] = "resolved"

(***************************************************************************)
(* C3.  After a failed claim nothing further is entered: the service is    *)
(* never resolved, populate is never called, and the invocation has no     *)
(* working copy and no commit on the remote.                               *)
(***************************************************************************)
C3_NothingAfterFailedClaim ==
  \A i \in Invocations :
    ClaimFailed(i) =>
      /\ service[i] = "none"
      /\ populated[i] = "none"
      /\ attempts[i] = 0
      /\ ~InPopulate(i)
      /\ \A k \in 1..Len(remoteLog) : remoteLog[k].author # i

\* a handler that is done after its claim timed out
C3_Witness ==
  \E i \in Invocations : pc[i] = "done" /\ ClaimFailed(i)

(***************************************************************************)
(* C4.  After a failed claim the release step raises no error of its own:  *)
(* the handler is done with a failed result whose error is the claim       *)
(* failure.                                                                *)
(***************************************************************************)
C4_FailedClaimIsTheResult ==
  \A i \in Invocations :
    pc[i] = "done" /\ ClaimFailed(i) =>
      result[i] = [state |-> "rejected", error |-> LockTimeoutError]

(***************************************************************************)
(* C5.  When populate fails, the claim is released before the error        *)
(* surfaces: whenever the error of a failed populate has been printed or   *)
(* has settled the handler, the claim has been released.                   *)
(***************************************************************************)
C5_ReleasedBeforeErrorSurfaces ==
  \A i \in Invocations :
    /\ populated[i] = "rejected"
    /\ printed[i] # <<>> \/ result[i].state = "rejected"
    => releases[i] = 1

(***************************************************************************)
(* C6.  The pessimistic strategy admits one holder per module name: two    *)
(* invocations run with the pessimistic lock for the same name never hold  *)
(* a claim at the same time and never are inside populate at the same      *)
(* time.  C6_SameNameExcludes states it for all such invocations,          *)
(* C6_SameNameSameTmpDirExcludes for those that share the lock directory.  *)
(***************************************************************************)
C6_SameNameExcludes ==
  \A i, j \in Invocations :
    /\ i # j
    /\ Pessimistic(i) /\ Pessimistic(j)
    /\ argv[i].name = argv[j].name
    => /\ ~(Holds(i) /\ Holds(j))
       /\ ~(InPopulate(i) /\ InPopulate(j))

C6_SameNameSameTmpDirExcludes ==
  \A i, j \in Invocations :
    /\ i # j
    /\ Pessimistic(i) /\ Pessimistic(j)
    /\ argv[i].name = argv[j].name
    /\ argv[i].tmpDir = argv[j].tmpDir
    => /\ ~(Holds(i) /\ Holds(j))
       /\ ~(InPopulate(i) /\ InPopulate(j))

\* one invocation is inside populate while a second one, started for the
\* same name and lock directory, waits for the claim
C6_Witness ==
  \E i, j \in Invocations :
    /\ i # j
    /\ Pessimistic(i) /\ Pessimistic(j)
    /\ argv[i].name = argv[j].name
    /\ argv[i].tmpDir = argv[j].tmpDir
    /\ InPopulate(i)
    /\ pc[j] = "claim"

(***************************************************************************)
(* C7.  With the no-op mutex (every strategy but the pessimistic one) the  *)
(* claim never blocks and never fails, whatever claims are outstanding,    *)
(* and neither its claim nor its release changes the lock markers.         *)
(***************************************************************************)
NoopLocked(i) == pc[i] # "idle" /\ ~Pessimistic(i)

C7_NoopNeverBlocks ==
  /\ [](\A i \in Invocations :
          NoopLocked(i) =>
            /\ pc[i] = "claim" => ENABLED ClaimResolved(i)
            /\ ~ClaimFailed(i))
  /\ [][\A i \in Invocations :
          NoopLocked(i) /\ pc[i] \in {"claim", "finally"} /\ pc'[i] # pc[i]
            => markers' = markers]_vars

\* two outstanding no-op claims for the same name
C7_Witness ==
  \E i, j \in Invocations :
    /\ i # j
    /\ NoopLocked(i) /\ NoopLocked(j)
    /\ argv[i].name = argv[j].name
    /\ Holds(i) /\ Holds(j)

(***************************************************************************)
(* C8.  Under the branch strategy a StaleBaseError on an attempt below the *)
(* retry ceiling starts the next attempt at Syncing, which checks out the  *)
(* current tip of the remote; a StaleBaseError on the attempt equal to the *)
(* ceiling starts no attempt and rejects populate with GitOpsPopulateError *)
(* wrapping the StaleBaseError.  The attempts never exceed the ceiling.    *)
(***************************************************************************)
\* the step in which the remote rejects i's push for a stale base
StaleRejection(i) ==
  /\ pc[i] = "push"
  /\ pc'[i] # "push"
  /\ ~RemoteAccepts(base[i], remoteLog)
  /\ thrown'[i] # AuthenticationError

\* a step of Syncing that checks out the tip
FreshCheckout(i) ==
  pc[i] = "sync" /\ pc'[i] # "sync" /\ thrown'[i] = NoError
    => /\ pc'[i] = "materialize"
       /\ base'[i] = Len(remoteLog)
       /\ wc'[i] = remoteTree

C8_RetryUpToCeiling ==
  /\ [](\A i \in Invocations : attempts[i] <= RetryCeiling)
  /\ [][\A i \in Invocations :
          Branch(i) =>
            /\ StaleRejection(i) /\ attempts[i] < RetryCeiling
                 => /\ pc'[i] = "sync"
                    /\ attempts'[i] = attempts[i] + 1
                    /\ thrown'[i] = NoError
            /\ StaleRejection(i) /\ attempts[i] >= RetryCeiling
                 => /\ pc'[i] = "catch"
                    /\ attempts'[i] = attempts[i]
                    /\ thrown'[i] = GitOpsPopulateError(StaleBaseError)
            /\ FreshCheckout(i)]_vars

\* a populate of the branch strategy that used up its attempts
C8_Witness ==
  \E i \in Invocations :
    /\ Branch(i)
    /\ attempts[i] = RetryCeiling
    /\ Caught(i) = GitOpsPopulateError(StaleBaseError)

(***************************************************************************)
(* C9.  Only a StaleBaseError of the branch strategy is retried; every     *)
(* other error, and a StaleBaseError of the other strategies, ends the     *)
(* invocation at once, and the handler fails with that very error.         *)
(***************************************************************************)
SurfacedKinds ==
  {"AuthenticationError", "MaterializationError", "ConfigResolutionError",
   "LockTimeoutError", "StaleBaseError"}

C9_NoRetryOfOtherErrors ==
  \A i \in Invocations :
    /\ attempts[i] > 1 => Branch(i)
    /\ thrown[i] # NoError => pc[i] = "catch"
    /\ Caught(i) = StaleBaseError => ~Branch(i) /\ attempts[i] = 1

C9_OtherErrorsSurfaceUnchanged ==
  /\ C9_NoRetryOfOtherErrors
  /\ \A i \in Invocations :
       pc[i] = "done" /\ Caught(i).kind \in SurfacedKinds
         => result[i] = [state |-> "rejected", error |-> Caught(i)]

(***************************************************************************)
(* C10.  Concurrent writers of the branch strategy.  The default branch    *)
(* always is the result of applying the landed changes one after the       *)
(* other, every writer whose populate resolved has its change in it (by    *)
(* its one commit, or found there when it had nothing to commit) and no    *)
(* failed writer has any; a writer whose push is rejected for a stale base *)
(* starts over from a checkout of the new tip.                             *)
(* C10_LoserAlwaysRetries states the retry for every lost race,            *)
(* C10_LoserRetriesBelowCeiling for the races lost below the retry         *)
(* ceiling, the writer at the ceiling failing without a change to the      *)
(* remote.                                                                 *)
(***************************************************************************)
\* the commits of invocation i on the default branch
CommitsOf(i) == {k \in 1..Len(remoteLog) : remoteLog[k].author = i}

\* what invocation i asks the destination path to hold
Desired(i) == IF argv[i].delete THEN AbsentEntry ELSE Entry(InputOf(argv[i]))

Serialized ==
  /\ remoteTree = Replay(remoteLog)
  /\ \A i \in Invocations :
       /\ populated[i] = "resolved" =>
            /\ Cardinality(CommitsOf(i)) <= 1
            /\ \A k \in CommitsOf(i) :
                 remoteLog[k] = Commit(i, argv[i].name, Desired(i))
            /\ \E k \in 0..Len(remoteLog) : TreeAt(k)[argv[i].name] = Desired(i)
       /\ populated[i] # "resolved" => CommitsOf(i) = {}

NoOpSuccess(i) == populated[i] = "resolved" /\ CommitsOf(i) = {}

NoDiffSkipsToRelease ==
  \A i \in Invocations :
    pc[i] = "commit" /\ pc'[i] # "commit" /\ wc[i] = TreeAt(base[i])
      => /\ pc'[i] = "finally"
         /\ populated'[i] = "resolved"
         /\ thrown'[i] = NoError
         /\ pushed'[i] = pushed[i]
         /\ UNCHANGED <<remoteLog, remoteTree>>

LastOp == opLog[Len(opLog)]
PrevOp == opLog[Len(opLog) - 1]

C13_DeleteRemovesOnce ==
  Len(opLog) >= 1 /\ LastOp.kind = "delete"
    => IF before[Destination(LastOp.input)].payload # Absent
         THEN /\ tree[Destination(LastOp.input)].payload = Absent
              /\ tree[Destination(LastOp.input)].application = NoApplication
              /\ \A n \in Paths \ {Destination(LastOp.input)} : tree[n] = before[n]
         ELSE tree = before

\* a populated module is deleted twice
C13_Witness ==
  /\ Len(opLog) = 3
  /\ opLog[1].kind = "populate" /\ opLog[2].kind = "delete" /\ opLog[3].kind = "delete"
  /\ opLog[1].input = opLog[2].input /\ opLog[2].input = opLog[3].input
  /\ tree = EmptyTree

(***************************************************************************)
(* C14.  With the delete option set the handler does not call populate of  *)
(* GitOpsModuleApi.  (The other half, no call of delete without the        *)
(* option, needs no formula: commonHandler has no call of delete.)         *)
(***************************************************************************)
C14_DeleteNeverCallsPopulate ==
  \A i \in Invocations : argv[i].delete => populated[i] = "none"

(***************************************************************************)
(* C15.  An invocation that supplies both gitopsConfigFile and             *)
(* bootstrapRepoUrl ends at argument validation: the handler never runs,   *)
(* so no mutex is created or claimed, no service is resolved, populate is  *)
(* not called, and there is no working copy, lock marker, release, push or *)
(* commit of that invocation.                                              *)
(***************************************************************************)
\* nothing of the handler has happened for invocation i
HandlerNeverRan(i) ==
  /\ mutex[i] = NoMutex
  /\ claim[i] = Undefined
  /\ service[i] = "none"
  /\ populated[i] = "none"
  /\ attempts[i] = 0
  /\ releases[i] = 0
  /\ pushed[i] = 0
  /\ printed[i] = <<>>
  /\ result[i].state = "pending"
  /\ CommitsOf(i) = {}
  /\ \A d \in workDirs : d[1] # i

C15_BothRejectedAtValidation ==
  \A i \in Invocations :
    pc[i] # "idle" /\ SuppliesBoth(argv[i])
      => pc[i] = "usage" /\ HandlerNeverRan(i)

\* one invocation was rejected for supplying both while another one, which
\* supplied one, is inside populate
C15_Witness ==
  \E i, j \in Invocations :
    /\ pc[i] = "usage" /\ SuppliesBoth(argv[i])
    /\ InPopulate(j)

(***************************************************************************)
(* C16.  Whenever populate has been called exactly one of gitopsConfigFile *)
(* and bootstrapRepoUrl is set, and an invocation that supplies neither    *)
(* ends at argument validation without the handler having run.             *)
(***************************************************************************)
C16_ExactlyOneWhenPopulateRuns ==
  \A i \in Invocations :
    /\ populated[i] # "none" => ~SuppliesBoth(argv[i]) /\ ~SuppliesNeither(argv[i])
    /\ pc[i] # "idle" /\ SuppliesNeither(argv[i])
         => pc[i] = "usage" /\ HandlerNeverRan(i)

(***************************************************************************)
(* C17.  Lock strategy selection.  Once the handler has started, its mutex *)
(* is the file-lock mutex exactly when lock is 'pessimistic' or 'p' and    *)
(* the no-op mutex for 'optimistic', 'o', 'branch' and 'b'; the class      *)
(* bound to GitOpsModuleApi, which is the service the handler resolves, is *)
(* the pull-request implementation exactly when lock is 'branch' or 'b'.   *)
(* A held file-lock claim has its marker in place; the other strategies    *)
(* push directly: whatever they pushed is a commit on the default branch.  *)
(***************************************************************************)
C17_LockStrategySelection ==
  \A i \in Invocations :
    pc[i] \notin {"idle", "usage"} =>
      /\ mutex[i].kind = "Mutex" <=> argv[i].lock \in {"pessimistic", "p"}
      /\ argv[i].lock \in {"optimistic", "o", "branch", "b"} => mutex[i] = NoopMutex
      /\ apiBound[i] = "GitopsModulePRImpl" <=> argv[i].lock \in {"branch", "b"}
      /\ argv[i].lock \notin {"branch", "b"} => apiBound[i] = "GitopsModuleImpl"
      /\ service[i] # "none" => service[i] = apiBound[i]
      /\ Holds(i) /\ argv[i].lock \in {"pessimistic", "p"} => claim[i].key \in markers
      /\ Holds(i) /\ argv[i].lock \notin {"pessimistic", "p"} => claim[i].kind = "NoopMutex"
      /\ argv[i].lock \notin {"branch", "b"} => pushed[i] = Cardinality(CommitsOf(i))

\* an invocation run with 'b' is inside populate of the pull-request
\* implementation while one run with 'p' holds the file lock
C17_Witness ==
  \E i, j \in Invocations :
    /\ argv[i].lock = "b" /\ InPopulate(i) /\ service[i] = "GitopsModulePRImpl"
    /\ argv[j].lock = "p" /\ Holds(j) /\ claim[j].kind = "Mutex"

(***************************************************************************)
(* C18.  The scope of the pessimistic lock is the module name: claims for  *)
(* one name exclude each other whatever their namespace and contentDir     *)
(* are, and a claim is never kept waiting, and never fails, because of     *)
(* claims for other names.  C18_NameOnlyScope states the exclusion for all *)
(* claims of one name, C18_NameOnlyScopePerTmpDir for those that share the *)
(* lock directory.                                                         *)
(***************************************************************************)
\* no other invocation was started for the name of invocation i
OnlyOtherNames(i) ==
  \A j \in Invocations \ {i} : pc[j] = "idle" \/ argv[j].name # argv[i].name

OtherNamesNeverBlock ==
  \A i \in Invocations :
    pc[i] # "idle" /\ Pessimistic(i) /\ OnlyOtherNames(i)
      => /\ pc[i] = "claim" => CanClaim(mutex[i], Descriptor(argv[i]), markers)
         /\ waited[i] = 0
         /\ ~ClaimFailed(i)

ClaimEnds ==
  \A i \in Invocations :
    /\ pc[i] = "claim" /\ pc'[i] # "claim" =>
         \/ pc'[i] = "getService" /\ claim'[i] # Undefined
         \/ /\ pc'[i] = "catch"
            /\ thrown'[i] = LockTimeoutError
            /\ waited[i] = MaxWaits
            /\ ~CanClaim(mutex[i], Descriptor(argv[i]), markers)
            /\ markers' = markers
    /\ ClaimFailed(i) /\ pc'[i] # pc[i] => markers' = markers

C19_ClaimNeverWaitsForever ==
  /\ \A i \in Invocations : (pc[i] = "claim") ~> (pc[i] # "claim")
  /\ [](\A i \in Invocations :
          /\ waited[i] <= MaxWaits
          /\ ClaimFailed(i) =>
               /\ Pessimistic(i)
               /\ waited[i] = MaxWaits
               /\ pc[i] \in {"catch", "finally", "done"}
               /\ claim[i] = Undefined
               /\ service[i] = "none"
               /\ populated[i] = "none")
  /\ [][ClaimEnds]_vars

\* a handler is done after its claim timed out, and the holder still has its
\* marker
C19_Witness ==
  \E i, j \in Invocations :
    /\ pc[i] = "done" /\ ClaimFailed(i) /\ waited[i] = MaxWaits
    /\ Holds(j) /\ claim[j].key \in markers
    /\ claim[j].key = ScopeKey(mutex[i], Descriptor(argv[i]))

(***************************************************************************)
(* C20.  Every working copy is deleted on every exit path: an invocation   *)
(* has at most the working copy of its current attempt, and only while     *)
(* that attempt is between checkout and push; once populate has ended,     *)
(* resolved or rejected, and when the handler is done, no working copy of  *)
(* any of its attempts exists.                                             *)
(***************************************************************************)
C20_WorkingCopiesDeleted ==
  /\ \A d \in workDirs :
       /\ d[2] = attempts[d[1]]
       /\ pc[d[1]] \in {"materialize", "commit", "push"}
  /\ \A i \in Invocations :
       pc[i] \in {"catch", "finally", "done"} => \A d \in workDirs : d[1] # i

\* a handler is done after populate used up its attempts
C20_Witness ==
  \E i \in Invocations :
    /\ pc[i] = "done"
    /\ attempts[i] = RetryCeiling
    /\ Caught(i) = GitOpsPopulateError(StaleBaseError)
    /\ \A d \in workDirs : d[1] # i

(***************************************************************************)
(* C21.  The layer a command passes on to commonHandler, and so to         *)
(* populate, names one LayerConfig section of GitOpsConfig                 *)
(* (infrastructure, services or applications): for every accepted choice   *)
(* of --layer, for a command line without --layer, and for                 *)
(* gitops-namespace.                                                       *)
(***************************************************************************)
\* commonHandler was called
HandlerCalled == passed \notin {NoRef, HandlerNotCalled}

C21_LayerNamesOneSection ==
  HandlerCalled => heap[passed].layer \in LayerConfigKeys

(***************************************************************************)
(* C22.  All work on the GitOps repository happens while the claim is      *)
(* held.  populate is called only with a claim, and while it runs, and     *)
(* while a working copy of the invocation exists, the claim is held; the   *)
(* release starts only when populate has resolved or rejected; and every   *)
(* step that changes the invocation's working copy, its pushes or its      *)
(* commits on the remote is a step of populate under a held claim, so      *)
(* nothing of it follows the release.                                      *)
(***************************************************************************)
\* a working copy of invocation i exists
HasWorkingCopy(i) == \E d \in workDirs : d[1] = i

\* a step that touches the repository, or a working copy of it, for i
TouchesRepository(i) ==
  \/ wc'[i] # wc[i]
  \/ base'[i] # base[i]
  \/ pushed'[i] # pushed[i]
  \/ HasWorkingCopy(i)' # HasWorkingCopy(i)
  \/ \E k \in 1..Len(remoteLog') : k > Len(remoteLog) /\ remoteLog'[k].author = i

C22_WorkOnlyWhileClaimHeld ==
  /\ [](\A i \in Invocations :
          /\ populated[i] # "none" => claim[i] # Undefined
          /\ InPopulate(i) \/ populated[i] = "running" \/ HasWorkingCopy(i) => Holds(i)
          /\ releases[i] > 0 =>
               /\ populated[i] # "running"
               /\ ~InPopulate(i)
               /\ ~HasWorkingCopy(i))
  /\ [][\A i \in Invocations :
          /\ TouchesRepository(i) => Holds(i) /\ InPopulate(i)
          /\ releases'[i] # releases[i] => populated[i] # "running"]_vars

\* a handler of the branch strategy is done: its populate retried, landed its
\* commit, and the claim was released after it
C22_Witness ==
  \E i \in Invocations :
    /\ pc[i] = "done"
    /\ releases[i] = 1
    /\ populated[i] = "resolved"
    /\ attempts[i] >= 2
    /\ CommitsOf(i) # {}

(***************************************************************************)
(* C23.  In build, deploy and cr, quiet suppresses the echo of the child's *)
(* stdout and stderr and nothing else: the echo is on the console exactly  *)
(* when quiet is not set; when the child failed the error is on the        *)
(* console and the exit code is 1 with and without quiet; when it          *)
(* succeeded no error is printed and no exit is asked for; and the         *)
(* arguments are printed exactly when debug is set.                        *)
(***************************************************************************)
\* the entries of one kind on the console
WrittenAs(what) == {k \in 1..Len(console) : console[k].what = what}

C24_NamespaceOverridesModulePassesThrough ==
  HandlerCalled =>
    /\ heap[ArgvRef] = parsed
    /\ command = "gitops-namespace" =>
         /\ heap[passed].isNamespace = JsTrue
         /\ heap[passed].layer = "infrastructure"
         /\ \A k \in Keys \ {"isNamespace", "layer"} : heap[passed][k] = parsed[k]
    /\ command = "gitops-module" =>
         /\ passed = ArgvRef
         /\ heap[passed] = parsed

\* gitops-namespace was called with --layer applications --isNamespace false
C24_Witness ==
  /\ command = "gitops-namespace"
  /\ HandlerCalled
  /\ parsed.layer = "applications"
  /\ parsed.isNamespace = JsFalse
  /\ heap[passed].layer = "infrastructure"

(***************************************************************************)
(* C25.  In NamespaceImpl.create the namespace is created only right after *)
(* exists answered that it is absent; setting the current project is the   *)
(* last call and is made exactly when no earlier call's error propagated:  *)
(* an error of the ArgoCD grant is swallowed, an error of the ConfigMap    *)
(* copy, the Secret copy or the Tekton SCC setup ends create, rejected,    *)
(* before the current project is set.                                      *)
(***************************************************************************)
\* the positions of the calls of one method
CallsOf(ops) == {k \in 1..Len(nsCalls) : nsCalls[k].op \in ops}

CreateCalls == CallsOf({"projects.create", "namespaces.create"})
ExistsCalls == CallsOf({"projects.exists", "namespaces.exists"})
SetCurrentCalls == CallsOf({"setCurrentProject"})

\* the calls before the current project is set whose error create lets through
Failed ==
  {j \in 1..Len(nsCalls) :
     /\ nsCalls[j].result = "error"
     /\ nsCalls[j].op \notin {"grantPermissionToArgoCD", "setCurrentProject"}}

NoNameTwice(array) ==
  \A j, k \in 1..Len(array) : array[j].name = array[k].name => j = k

NamesIn(array) == {array[k].name : k \in 1..Len(array)}

MatchingNames == {kubeSecrets[k] : k \in {j \in 1..Len(kubeSecrets) : Matches(kubeSecrets[j], PullSecretPattern)}}

C26_PullSecretsUpdatedOnce ==
  updates >= 1 =>
    /\ NamesIn(slice(given)) \subseteq NamesIn(returned.imagePullSecrets)
    /\ MatchingNames \subseteq NamesIn(returned.imagePullSecrets)
    /\ NoNameTwice(slice(given)) => NoNameTwice(returned.imagePullSecrets)
    /\ updates >= 2 => NamesOf(returned.imagePullSecrets) = NamesOf(slice(given))
    /\ updates = 1 => given = serviceAccount

\* the parts of C26 that the code keeps
C26_KeepsListedAddsMatching ==
  updates >= 1 =>
    /\ NamesIn(slice(given)) \subseteq NamesIn(returned.imagePullSecrets)
    /\ MatchingNames \subseteq NamesIn(returned.imagePullSecrets)
    /\ NamesIn(returned.imagePullSecrets) = NamesIn(slice(given)) \cup MatchingNames
    /\ updates = 1 => given = serviceAccount

====
